---- MODULE Spec2Model ----
(***************************************************************************)
(* The bookstore catalog (stores/models.py), its public views              *)
(* (stores/views.py) and its admin filters and bulk actions                *)
(* (stores/admin.py), as a state machine over the database tables.         *)
(*                                                                         *)
(* Representation of values:                                               *)
(*   - price is a Decimal with two decimal places: an integer number of    *)
(*     hundredths (cents);                                                 *)
(*   - discount_percentage is a Decimal with two decimal places: an        *)
(*     integer number of hundredths of a percent;                          *)
(*   - a derived money amount (discounted_price) is an integer number of   *)
(*     millionths, which holds price * discount_percentage / 100 exactly,  *)
(*     as Python's Decimal does (28 significant digits, 15 are needed);    *)
(*   - a title is a sequence of characters, so that substring and          *)
(*     case-folding are computed; other strings are TLA+ strings;          *)
(*   - a table is a function from primary keys to rows; primary keys are   *)
(*     handed out by per-table auto-increment counters and never reused.   *)
(***************************************************************************)
EXTENDS Integers, Sequences, FiniteSets, TLC

VARIABLES
    books,          \* Book table: id -> row
    authors,        \* Author table: id -> row
    book_authors,   \* Book.authors through table: id -> [book, author]
    publishers,     \* Publisher table: id -> row
    categories,     \* Category table: id -> row
    reviews,        \* BookReview table: id -> row
    images,         \* BookImage table: id -> row
    next_id,        \* auto-increment counter of every table
    now,            \* the clock read by auto_now_add / auto_now
    response        \* what the last operation returned to its caller

vars == <<books, authors, book_authors, publishers, categories, reviews,
          images, next_id, now, response>>

tables == <<books, authors, book_authors, publishers, categories, reviews,
            images, next_id>>

----------------------------------------------------------------------------
(* Generic table helpers *)

\* The value of a nullable foreign key that references nothing.
NULL == 0

Insert(table, id, row) == (id :> row) @@ table

Remove(table, ids) == [i \in DOMAIN table \ ids |-> table[i]]

Min(a, b) == IF a <= b THEN a ELSE b

\* The rows of S in the order given by rank, which maps each row to the
\* number of rows that come before it.
Sorted(S, rank) ==
    [i \in 1..Cardinality(S) |-> CHOOSE x \in S : rank[x] = i - 1]

\* The database leaves the order of rows with equal sort keys open; a request
\* resolves it by primary key, ascending or descending.
TieOrders == {"pk_asc", "pk_desc"}

TieBefore(tie, x, y) == IF tie = "pk_asc" THEN x < y ELSE x > y

\* queryset[:k]
Limit(seq, k) == SubSeq(seq, 1, Min(k, Len(seq)))

SeqToSet(seq) == {seq[i] : i \in DOMAIN seq}

----------------------------------------------------------------------------
(* Book: fields, validators and derived properties *)

\* Book.status_choices
status_choices == {"available", "out_of_stock", "discontinued", "pre_order"}

\* MaxValueValidator(100) on discount_percentage, in hundredths of a percent.
MaxDiscount == 10000

\* Millionths per cent: price (2 places) times discount_percentage (2 places)
\* divided by 100 has 6 places.
MicroPerCent == 10000

\* Book.discounted_price, in millionths.
discounted_price_plus(b) ==
    IF b.discount_percentage > 0
    THEN LET discount_amount == b.price * b.discount_percentage
         IN  b.price * MicroPerCent + discount_amount
    ELSE b.price * MicroPerCent

discounted_price(b) ==
    IF b.discount_percentage > 0
    THEN LET discount_amount == b.price * b.discount_percentage
         IN  b.price * MicroPerCent - discount_amount
    ELSE b.price * MicroPerCent

\* Book.is_low_stock
is_low_stock(b) == b.stock_quantity <= b.min_stock_level

\* Book.is_available
is_available(b) == b.status = "available" /\ b.stock_quantity > 0

\* The fields a form or a caller supplies for a Book; the model's defaults for
\* the rest.
BookDefaults ==
    [title |-> <<"A">>, isbn_10 |-> "", isbn_13 |-> "",
     publisher |-> NULL, category |-> NULL,
     price |-> 1000, discount_percentage |-> 0,
     stock_quantity |-> 0, min_stock_level |-> 5,
     status |-> "available", featured |-> FALSE, bestseller |-> FALSE]

\* The fields f with ISBNs no stored book has: those of the n-th book.
WithFreshIsbn(f) ==
    [f EXCEPT !.isbn_10 = "10-" \o ToString(next_id.book),
              !.isbn_13 = "13-" \o ToString(next_id.book)]

\* unique=True on isbn_10 / isbn_13: another row holds the same value. The
\* columns are NOT NULL (blank=True without null=True), a blank ISBN is stored
\* as the empty string and takes part in the check like any other value.
UniqueConflict(field, value, self) ==
    \E i \in DOMAIN books : i # self /\ books[i][field] = value

\* Model.full_clean() for a Book: the fields that fail validation. self is the
\* primary key of the row being changed, NULL for a new row.
BookErrors(f, self) ==
    {fld \in {"title"} : f.title = <<>>}
    \cup {fld \in {"price"} : f.price < 0}
    \cup {fld \in {"discount_percentage"} :
            f.discount_percentage < 0 \/ f.discount_percentage > MaxDiscount}
    \cup {fld \in {"stock_quantity"} : f.stock_quantity < 0}
    \cup {fld \in {"status"} : f.status \notin status_choices}
    \cup {fld \in {"publisher"} :
            f.publisher # NULL /\ f.publisher \notin DOMAIN publishers}
    \cup {fld \in {"category"} :
            f.category # NULL /\ f.category \notin DOMAIN categories}
    \cup {fld \in {"isbn_10", "isbn_13"} : UniqueConflict(fld, f[fld], self)}

\* The row stored for the fields f: auto_now_add stamps created_at on insert,
\* auto_now stamps updated_at on every save().
BookRow(f, created, updated) ==
    [title |-> f.title, isbn_10 |-> f.isbn_10, isbn_13 |-> f.isbn_13,
     publisher |-> f.publisher, category |-> f.category,
     price |-> f.price, discount_percentage |-> f.discount_percentage,
     stock_quantity |-> f.stock_quantity,
     min_stock_level |-> f.min_stock_level,
     status |-> f.status, featured |-> f.featured,
     bestseller |-> f.bestseller,
     created_at |-> created, updated_at |-> updated]

\* Saving a new Book (full_clean, then INSERT), dt after the previous
\* operation.
CreateBook(f, dt) ==
    LET errors == BookErrors(f, NULL)
        id     == next_id.book
    IN  /\ now' = now + dt
        /\ IF errors # {}
           THEN /\ response' = [op |-> "create_book", ok |-> FALSE,
                                error |-> "ValidationError",
                                fields |-> errors, input |-> f]
                /\ UNCHANGED tables
           ELSE /\ books' = Insert(books, id, BookRow(f, now', now'))
                /\ next_id' = [next_id EXCEPT !.book = id + 1]
                /\ response' = [op |-> "create_book", ok |-> TRUE,
                                id |-> id, input |-> f]
                /\ UNCHANGED <<authors, book_authors, publishers, categories,
                               reviews, images>>

\* How many rows have been inserted, over all tables.
RowsInserted ==
    (next_id.book - 1) + (next_id.author - 1) + (next_id.book_authors - 1)
    + (next_id.publisher - 1) + (next_id.category - 1)
    + (next_id.review - 1) + (next_id.image - 1)

\* Reading book.discounted_price.
ReadDiscountedPrice(id) ==
    /\ id \in DOMAIN books
    /\ response' = [op |-> "discounted_price", id |-> id,
                    value |-> discounted_price(books[id])]
    /\ UNCHANGED <<tables, now>>

----------------------------------------------------------------------------
(* The empty database *)

Init ==
    /\ books = <<>>
    /\ authors = <<>>
    /\ book_authors = <<>>
    /\ publishers = <<>>
    /\ categories = <<>>
    /\ reviews = <<>>
    /\ images = <<>>
    /\ next_id = [book |-> 1, author |-> 1, book_authors |-> 1,
                  publisher |-> 1, category |-> 1, review |-> 1, image |-> 1]
    /\ now = 0
    /\ response = [op |-> "none"]

----------------------------------------------------------------------------
(* Pricing: books of assorted prices and discounts, and their discounted    *)
(* price.                                                                   *)

MaxPricedBooks == 2

PriceInputs == {-1, 0, 1, 1999, 10000}

DiscountInputs == {-1, 0, 1, 1000, 3333, 10000, 10001}

PricingInputs ==
    {[BookDefaults EXCEPT !.price = p, !.discount_percentage = d] :
        p \in PriceInputs, d \in DiscountInputs}

PricingNext ==
    \/ \E f \in PricingInputs :
          /\ next_id.book <= MaxPricedBooks
          /\ CreateBook(WithFreshIsbn(f), 0)
    \/ \E id \in DOMAIN books : ReadDiscountedPrice(id)

SpecPricing == Init /\ [][PricingNext]_vars

\* C1 (as stated): the discounted price of a stored book is at most its price,
\* and equals it exactly when discount_percentage is 0, free books included.
C1_AsStated ==
    response.op = "discounted_price" =>
        LET b == books[response.id]
        IN  /\ response.value <= b.price * MicroPerCent
            /\ (response.value = b.price * MicroPerCent
                    <=> b.discount_percentage = 0)

\* C1 (amended): the discounted price of a stored book is at most its price;
\* for a book with a positive price it equals the price exactly when
\* discount_percentage is 0, and for a free book it is always the price, 0.
C1_DiscountedPrice ==
    response.op = "discounted_price" =>
        LET b == books[response.id]
        IN  /\ b.price >= 0
            /\ b.discount_percentage >= 0
            /\ b.discount_percentage <= MaxDiscount
            /\ response.value <= b.price * MicroPerCent
            /\ b.price > 0 =>
                 (response.value = b.price * MicroPerCent
                    <=> b.discount_percentage = 0)
            /\ b.price = 0 => response.value = 0

\* A 100.00 book at 10% has been priced at 90.00, and a free book with a
\* discount has been priced.
C1_Witness ==
    /\ response.op = "discounted_price"
    /\ books[response.id].price = 10000
    /\ books[response.id].discount_percentage = 1000
    /\ response.value = 9000 * MicroPerCent
    /\ \E i \in DOMAIN books :
          books[i].price = 0 /\ books[i].discount_percentage > 0

----------------------------------------------------------------------------
(* Admin list filters (stores/admin.py)                                     *)

\* SimpleListFilter.value() when the request carries no such parameter.
NoValue == "None"

StockLevels == {"low", "out", "good"}

PriceRanges == {"under_20", "20_50", "50_100", "over_100"}

\* StockLevelFilter.queryset with 'low' written as stock_quantity < 5.
StockLevelFilter_lt(value, queryset) ==
    CASE value = "low" ->
            {i \in queryset : books[i].stock_quantity < 5
                              /\ books[i].stock_quantity > 0}
      [] value = "out" -> {i \in queryset : books[i].stock_quantity = 0}
      [] value = "good" -> {i \in queryset : books[i].stock_quantity > 5}
      [] OTHER -> queryset

\* StockLevelFilter.queryset: the primary keys it keeps of queryset. For a
\* value that is none of the lookups it returns None and the change list
\* keeps the queryset as it is.
StockLevelFilter(value, queryset) ==
    CASE value = "low" ->
            {i \in queryset : books[i].stock_quantity <= 5
                              /\ books[i].stock_quantity > 0}
      [] value = "out" -> {i \in queryset : books[i].stock_quantity = 0}
      [] value = "good" -> {i \in queryset : books[i].stock_quantity > 5}
      [] OTHER -> queryset

\* PriceRangeFilter.queryset; prices in cents.
PriceRangeFilter(value, queryset) ==
    CASE value = "under_20" -> {i \in queryset : books[i].price < 2000}
      [] value = "20_50" ->
            {i \in queryset : books[i].price >= 2000 /\ books[i].price < 5000}
      [] value = "50_100" ->
            {i \in queryset : books[i].price >= 5000 /\ books[i].price < 10000}
      [] value = "over_100" -> {i \in queryset : books[i].price >= 10000}
      [] OTHER -> queryset

\* The Book change list with ?stock_level=value.
FilterByStockLevel(value) ==
    /\ response' = [op |-> "stock_level", value |-> value,
                    result |-> StockLevelFilter(value, DOMAIN books)]
    /\ UNCHANGED <<tables, now>>

\* The Book change list with ?price_range=value.
FilterByPriceRange(value) ==
    /\ response' = [op |-> "price_range", value |-> value,
                    result |-> PriceRangeFilter(value, DOMAIN books)]
    /\ UNCHANGED <<tables, now>>

MaxFilteredBooks == 2

FilterInputs ==
    {[BookDefaults EXCEPT !.price = p, !.stock_quantity = q] :
        p \in {1999, 2000, 4999, 5000, 9999, 10000}, q \in {0, 1, 5, 6}}

FilterNext ==
    \/ \E f \in FilterInputs :
          /\ next_id.book <= MaxFilteredBooks
          /\ CreateBook(WithFreshIsbn(f), 0)
    \/ \E value \in StockLevels \cup {NoValue} : FilterByStockLevel(value)
    \/ \E value \in PriceRanges \cup {NoValue} : FilterByPriceRange(value)

SpecFilter == Init /\ [][FilterNext]_vars

\* C2: over the stored books, the stock-level bands low/out/good are pairwise
\* disjoint and cover every book, and so do the price bands
\* under_20/20_50/50_100/over_100; a book priced exactly 20 is in 20_50, 50 in
\* 50_100, 100 in over_100, and a book with stock 5 is in low. A filter's
\* answer holds only stored books.
C2_FilterPartition ==
    LET all      == DOMAIN books
        stock(v) == StockLevelFilter(v, all)
        price(v) == PriceRangeFilter(v, all)
    IN  /\ \A v, w \in StockLevels : v # w => stock(v) \cap stock(w) = {}
        /\ UNION {stock(v) : v \in StockLevels} = all
        /\ \A v, w \in PriceRanges : v # w => price(v) \cap price(w) = {}
        /\ UNION {price(v) : v \in PriceRanges} = all
        /\ \A i \in all :
              /\ books[i].price = 2000 => i \in price("20_50")
              /\ books[i].price = 5000 => i \in price("50_100")
              /\ books[i].price = 10000 => i \in price("over_100")
              /\ books[i].stock_quantity = 5 => i \in stock("low")
        /\ response.op \in {"stock_level", "price_range"} =>
              response.result \subseteq all

\* The 20_50 filter has answered with a book priced exactly 20.00 while a book
\* with stock 5 is stored.
C2_Witness ==
    /\ response.op = "price_range"
    /\ response.value = "20_50"
    /\ \E i \in response.result : books[i].price = 2000
    /\ \E i \in DOMAIN books : books[i].stock_quantity = 5

----------------------------------------------------------------------------
(* Public views (stores/views.py)                                           *)

\* Code points of the characters titles are written with.
Ord == ("A" :> 65) @@ ("B" :> 66) @@ ("a" :> 97) @@ ("b" :> 98) @@ ("c" :> 99)

\* ORDER BY title: s sorts strictly before t, comparing code points.
TitleLess(s, t) ==
    \E i \in 1..(Min(Len(s), Len(t)) + 1) :
        /\ \A j \in 1..(i - 1) : s[j] = t[j]
        /\ \/ i > Len(s) /\ i <= Len(t)
           \/ i <= Len(s) /\ i <= Len(t) /\ Ord[s[i]] < Ord[t[i]]

\* order_by('title') over the rows S.
OrderByTitle(S, tie) ==
    LET Before(x, y) ==
            \/ TitleLess(books[x].title, books[y].title)
            \/ /\ books[x].title = books[y].title
               /\ TieBefore(tie, x, y)
    IN  Sorted(S, [x \in S |-> Cardinality({y \in S : Before(y, x)})])

\* order_by('-created_at') over the rows S, also Book.Meta.ordering.
OrderByCreatedDesc(S, tie) ==
    LET Before(x, y) ==
            \/ books[x].created_at > books[y].created_at
            \/ /\ books[x].created_at = books[y].created_at
               /\ TieBefore(tie, x, y)
    IN  Sorted(S, [x \in S |-> Cardinality({y \in S : Before(y, x)})])

\* order_by('created_at'): oldest first.
OrderByCreatedAsc(S, tie) ==
    LET Before(x, y) ==
            \/ books[x].created_at < books[y].created_at
            \/ /\ books[x].created_at = books[y].created_at
               /\ TieBefore(tie, x, y)
    IN  Sorted(S, [x \in S |-> Cardinality({y \in S : Before(y, x)})])

\* home's latest_books with the sort direction reversed.
latest_books_oldest_first(tie) ==
    Limit(OrderByCreatedAsc(
              {i \in DOMAIN books : books[i].status = "available"}, tie), 6)

\* home: featured_books. No order_by: Book.Meta.ordering applies.
featured_books(tie) ==
    Limit(OrderByCreatedDesc(
              {i \in DOMAIN books :
                  books[i].featured /\ books[i].status = "available"}, tie), 6)

\* home: latest_books.
latest_books(tie) ==
    Limit(OrderByCreatedDesc(
              {i \in DOMAIN books : books[i].status = "available"}, tie), 6)

\* home: bestsellers. No order_by: Book.Meta.ordering applies.
bestsellers(tie) ==
    Limit(OrderByCreatedDesc(
              {i \in DOMAIN books :
                  books[i].bestseller /\ books[i].status = "available"}, tie), 6)

\* show_books' queryset with the status filter left out.
show_books_queryset_all(GET, tie) == OrderByTitle(DOMAIN books, tie)

\* show_books' queryset sorted by '-title'.
show_books_queryset_desc(GET, tie) ==
    LET Before(x, y) ==
            \/ TitleLess(books[y].title, books[x].title)
            \/ /\ books[x].title = books[y].title
               /\ TieBefore(tie, x, y)
        S == {i \in DOMAIN books : books[i].status = "available"}
    IN  Sorted(S, [x \in S |-> Cardinality({y \in S : Before(y, x)})])

\* show_books: the queryset handed to the template. The request's GET
\* parameters are not read.
show_books_queryset(GET, tie) ==
    OrderByTitle({i \in DOMAIN books : books[i].status = "available"}, tie)

\* GET /
home(tie) ==
    /\ response' = [op |-> "home", status |-> 200,
                    total_books |-> Cardinality(DOMAIN books),
                    total_authors |-> Cardinality(DOMAIN authors),
                    total_categories |-> Cardinality(DOMAIN categories),
                    featured_books |-> featured_books(tie),
                    latest_books |-> latest_books(tie),
                    bestsellers |-> bestsellers(tie)]
    /\ UNCHANGED <<tables, now>>

\* GET /books/ with the query parameters GET.
show_books(GET, tie) ==
    /\ response' = [op |-> "show_books", status |-> 200, GET |-> GET,
                    books |-> show_books_queryset(GET, tie)]
    /\ UNCHANGED <<tables, now>>

----------------------------------------------------------------------------
(* The home page over a growing catalog *)

MaxHomeBooks == 7

HomeInputs ==
    {[BookDefaults EXCEPT !.status = "available", !.featured = TRUE,
                          !.bestseller = TRUE, !.stock_quantity = 3],
     [BookDefaults EXCEPT !.status = "available"],
     [BookDefaults EXCEPT !.status = "discontinued", !.featured = TRUE,
                          !.bestseller = TRUE]}

\* How many stored books share their creation time with an earlier one.
Ties == Cardinality(DOMAIN books)
            - Cardinality({books[i].created_at : i \in DOMAIN books})

MaxTies == 1

HomeNext ==
    \/ \E f \in HomeInputs, dt \in {0, 1} :
          /\ next_id.book <= MaxHomeBooks
          /\ dt = 0 => books # <<>> /\ Ties < MaxTies
          /\ CreateBook(WithFreshIsbn(f), dt)
    \/ \E tie \in TieOrders : home(tie)

SpecHome == Init /\ [][HomeNext]_vars

IsInjective(seq) ==
    \A i, j \in DOMAIN seq : i # j => seq[i] # seq[j]

\* C4: each of home's three result sets holds exactly min(6, n) distinct books,
\* n being the number of books matching its predicate (featured and status
\* available; status available; bestseller and status available); every
\* returned book matches that predicate; latest_books is in descending
\* creation order and no matching book left out was created later than a
\* returned one.
C4_HomeResultSets ==
    response.op = "home" =>
        LET all        == DOMAIN books
            avail      == {i \in all : books[i].status = "available"}
            featured   == {i \in avail : books[i].featured}
            bestseller == {i \in avail : books[i].bestseller}
            Bounded(seq, S) ==
                /\ Len(seq) = Min(6, Cardinality(S))
                /\ IsInjective(seq)
                /\ SeqToSet(seq) \subseteq S
            latest     == response.latest_books
        IN  /\ Bounded(response.featured_books, featured)
            /\ Bounded(latest, avail)
            /\ Bounded(response.bestsellers, bestseller)
            /\ \A i, j \in DOMAIN latest :
                  i < j => books[latest[i]].created_at
                             >= books[latest[j]].created_at
            /\ \A x \in avail \ SeqToSet(latest), i \in DOMAIN latest :
                  books[x].created_at <= books[latest[i]].created_at

\* home has answered over 7 featured, available bestsellers with 6 of them.
C4_Witness ==
    /\ response.op = "home"
    /\ Cardinality({i \in DOMAIN books :
          books[i].featured /\ books[i].bestseller
          /\ books[i].status = "available"}) = 7
    /\ Len(response.featured_books) = 6
    /\ Len(response.latest_books) = 6
    /\ Len(response.bestsellers) = 6

----------------------------------------------------------------------------
(* The listing and the home page over books of assorted titles, statuses    *)
(* and stock                                                                *)

MaxListedBooks == 2

ListingInputs ==
    {[BookDefaults EXCEPT !.title = t, !.status = ss[1],
                          !.stock_quantity = ss[2],
                          !.featured = fb, !.bestseller = fb] :
        t \in {<<"A">>, <<"a", "b">>, <<"B", "a">>},
        ss \in {<<"available", 3>>, <<"available", 0>>, <<"out_of_stock", 0>>},
        fb \in BOOLEAN}

\* The query parameters of a request to /books/: none, or q.
QueryInputs ==
    {<<>>} \cup {[q |-> q] : q \in {<<>>, <<"a">>, <<"b", "A">>, <<"c">>}}

ListingNext ==
    \/ \E f \in ListingInputs, dt \in {0, 1} :
          /\ next_id.book <= MaxListedBooks
          /\ dt = 0 => books # <<>> /\ Ties < MaxTies
          /\ CreateBook(WithFreshIsbn(f), dt)
    \/ \E GET \in QueryInputs, tie \in TieOrders : show_books(GET, tie)
    \/ \E tie \in TieOrders : home(tie)

SpecListing == Init /\ [][ListingNext]_vars

\* Case folding of a character, as icontains compares.
Lower(c) == CASE c = "A" -> "a" [] c = "B" -> "b" [] OTHER -> c

\* title contains q as a case-insensitive substring.
IContains(title, q) ==
    \E k \in 0..(Len(title) - Len(q)) :
        \A j \in 1..Len(q) : Lower(title[k + j]) = Lower(q[j])

\* The sequence of primary keys seq is in ascending title order.
InTitleOrder(seq) ==
    \A i, j \in DOMAIN seq :
        i < j => ~TitleLess(books[seq[j]].title, books[seq[i]].title)

\* C3 (as stated): /books/ with a non-empty q returns exactly the books of
\* status available whose title contains q case-insensitively, ordered by
\* title; with an empty or absent q every book of status available, ordered by
\* title; it never fails.
C3_AsStated ==
    response.op = "show_books" =>
        LET avail == {i \in DOMAIN books : books[i].status = "available"}
            GET   == response.GET
            q     == IF "q" \in DOMAIN GET THEN GET.q ELSE <<>>
        IN  /\ response.status = 200
            /\ IsInjective(response.books)
            /\ InTitleOrder(response.books)
            /\ SeqToSet(response.books)
                 = {i \in avail : q = <<>> \/ IContains(books[i].title, q)}

\* C3 (amended): /books/ returns exactly the books of status available,
\* ordered by title, whatever q the request carries (absent, empty or not); it
\* never fails, also when no book is returned.
C3_Listing ==
    response.op = "show_books" =>
        /\ response.status = 200
        /\ IsInjective(response.books)
        /\ InTitleOrder(response.books)
        /\ SeqToSet(response.books)
             = {i \in DOMAIN books : books[i].status = "available"}

\* /books/?q=c has answered with two books of different titles, neither with a
\* c in it.
C3_Witness ==
    /\ response.op = "show_books"
    /\ "q" \in DOMAIN response.GET
    /\ response.GET.q = <<"c">>
    /\ Len(response.books) = 2
    /\ books[response.books[1]].title # books[response.books[2]].title

\* /books/ has answered with no book at all while books are stored.
C3_WitnessEmpty ==
    /\ response.op = "show_books"
    /\ response.books = <<>>
    /\ books # <<>>

\* The books a response of home or show_books returned.
Returned ==
    CASE response.op = "show_books" -> SeqToSet(response.books)
      [] response.op = "home" ->
            SeqToSet(response.featured_books)
            \cup SeqToSet(response.latest_books)
            \cup SeqToSet(response.bestsellers)
      [] OTHER -> {}

\* C10 (as stated): every book the listing or one of home's result sets
\* returns satisfies is_available (status available and stock_quantity > 0),
\* and every book satisfying is_available is in the listing.
C10_AsStated ==
    /\ \A i \in Returned : is_available(books[i])
    /\ response.op = "show_books" =>
          \A i \in DOMAIN books :
              is_available(books[i]) => i \in SeqToSet(response.books)

\* C10 (amended): every book the listing or one of home's result sets returns
\* has status available, whatever its stock_quantity, and every book
\* satisfying is_available is in the listing.
C10_StatusAvailable ==
    /\ \A i \in Returned : books[i].status = "available"
    /\ response.op = "show_books" =>
          \A i \in DOMAIN books :
              is_available(books[i]) => i \in SeqToSet(response.books)

\* The listing has returned a book that is in stock and one that is not.
C10_Witness ==
    /\ response.op = "show_books"
    /\ \E i \in Returned : is_available(books[i])
    /\ \E i \in Returned : books[i].stock_quantity = 0

----------------------------------------------------------------------------
(* Publisher, Category, BookReview, BookImage: saving and deleting rows     *)

\* Saving a new Publisher; name is unique.
CreatePublisher(name) ==
    LET id == next_id.publisher
    IN  /\ IF \E i \in DOMAIN publishers : publishers[i].name = name
           THEN /\ response' = [op |-> "create_publisher", ok |-> FALSE,
                                error |-> "ValidationError",
                                fields |-> {"name"}]
                /\ UNCHANGED tables
           ELSE /\ publishers' = Insert(publishers, id, [name |-> name])
                /\ next_id' = [next_id EXCEPT !.publisher = id + 1]
                /\ response' = [op |-> "create_publisher", ok |-> TRUE,
                                id |-> id]
                /\ UNCHANGED <<books, authors, book_authors, categories,
                               reviews, images>>
        /\ UNCHANGED now

\* Saving a new Category; name is unique.
CreateCategory(name) ==
    LET id == next_id.category
    IN  /\ IF \E i \in DOMAIN categories : categories[i].name = name
           THEN /\ response' = [op |-> "create_category", ok |-> FALSE,
                                error |-> "ValidationError",
                                fields |-> {"name"}]
                /\ UNCHANGED tables
           ELSE /\ categories' = Insert(categories, id,
                                        [name |-> name, created_at |-> now])
                /\ next_id' = [next_id EXCEPT !.category = id + 1]
                /\ response' = [op |-> "create_category", ok |-> TRUE,
                                id |-> id]
                /\ UNCHANGED <<books, authors, book_authors, publishers,
                               reviews, images>>
        /\ UNCHANGED now

\* on_delete=SET_NULL: the Book rows after the row id that field references is
\* deleted. An UPDATE, not a save(): updated_at stays.
SetNull(field, id) ==
    [i \in DOMAIN books |->
        IF books[i][field] = id
        THEN [books[i] EXCEPT ![field] = NULL]
        ELSE books[i]]

\* Deleting a Publisher.
DeletePublisher(id) ==
    /\ id \in DOMAIN publishers
    /\ books' = SetNull("publisher", id)
    /\ publishers' = Remove(publishers, {id})
    /\ response' = [op |-> "delete_publisher", id |-> id]
    /\ UNCHANGED <<authors, book_authors, categories, reviews, images,
                   next_id, now>>

\* Deleting a Category.
DeleteCategory(id) ==
    /\ id \in DOMAIN categories
    /\ books' = SetNull("category", id)
    /\ categories' = Remove(categories, {id})
    /\ response' = [op |-> "delete_category", id |-> id]
    /\ UNCHANGED <<authors, book_authors, publishers, reviews, images,
                   next_id, now>>

\* unique_together = ['book', 'reviewer_email'], never enforced.
ReviewUniqueConflict_off(f, self) == FALSE

\* unique_together = ['book', 'reviewer_email']: another review holds the pair.
ReviewUniqueConflict(f, self) ==
    \E r \in DOMAIN reviews :
        /\ r # self
        /\ reviews[r].book = f.book
        /\ reviews[r].reviewer_email = f.reviewer_email

\* Model.full_clean() for a BookReview; a unique_together failure is reported
\* under '__all__'.
ReviewErrors(f, self) ==
    {fld \in {"book"} : f.book \notin DOMAIN books}
    \cup {fld \in {"rating"} : f.rating < 1 \/ f.rating > 5}
    \cup {fld \in {"__all__"} : ReviewUniqueConflict(f, self)}

\* Saving a new BookReview.
CreateReview(f) ==
    LET errors == ReviewErrors(f, NULL)
        id     == next_id.review
    IN  /\ IF errors # {}
           THEN /\ response' = [op |-> "create_review", ok |-> FALSE,
                                error |-> "ValidationError",
                                fields |-> errors, input |-> f]
                /\ UNCHANGED tables
           ELSE /\ reviews' = Insert(reviews, id,
                                     [book |-> f.book,
                                      reviewer_email |-> f.reviewer_email,
                                      rating |-> f.rating,
                                      created_at |-> now])
                /\ next_id' = [next_id EXCEPT !.review = id + 1]
                /\ response' = [op |-> "create_review", ok |-> TRUE,
                                id |-> id, input |-> f]
                /\ UNCHANGED <<books, authors, book_authors, publishers,
                               categories, images>>
        /\ UNCHANGED now

\* Saving a changed BookReview.
UpdateReview(id, f) ==
    LET errors == ReviewErrors(f, id)
    IN  /\ id \in DOMAIN reviews
        /\ IF errors # {}
           THEN /\ response' = [op |-> "update_review", ok |-> FALSE,
                                error |-> "ValidationError",
                                fields |-> errors, id |-> id, input |-> f]
                /\ UNCHANGED tables
           ELSE /\ reviews' = [reviews EXCEPT
                                 ![id].book = f.book,
                                 ![id].reviewer_email = f.reviewer_email,
                                 ![id].rating = f.rating]
                /\ response' = [op |-> "update_review", ok |-> TRUE,
                                id |-> id, input |-> f]
                /\ UNCHANGED <<books, authors, book_authors, publishers,
                               categories, images, next_id>>
        /\ UNCHANGED now

\* Deleting a BookReview.
DeleteReview(id) ==
    /\ id \in DOMAIN reviews
    /\ reviews' = Remove(reviews, {id})
    /\ response' = [op |-> "delete_review", id |-> id]
    /\ UNCHANGED <<books, authors, book_authors, publishers, categories,
                   images, next_id, now>>

\* Saving a new BookImage.
CreateImage(f) ==
    LET id == next_id.image
    IN  /\ IF f.book \notin DOMAIN books
           THEN /\ response' = [op |-> "create_image", ok |-> FALSE,
                                error |-> "ValidationError",
                                fields |-> {"book"}, input |-> f]
                /\ UNCHANGED tables
           ELSE /\ images' = Insert(images, id,
                                    [book |-> f.book,
                                     is_primary |-> f.is_primary,
                                     created_at |-> now])
                /\ next_id' = [next_id EXCEPT !.image = id + 1]
                /\ response' = [op |-> "create_image", ok |-> TRUE,
                                id |-> id, input |-> f]
                /\ UNCHANGED <<books, authors, book_authors, publishers,
                               categories, reviews>>
        /\ UNCHANGED now

\* Deleting a BookImage.
DeleteImage(id) ==
    /\ id \in DOMAIN images
    /\ images' = Remove(images, {id})
    /\ response' = [op |-> "delete_image", id |-> id]
    /\ UNCHANGED <<books, authors, book_authors, publishers, categories,
                   reviews, next_id, now>>

\* on_delete=CASCADE: the primary keys of the rows of table that reference
\* book id.
Cascade(table, id) == {r \in DOMAIN table : table[r].book = id}

\* Deleting a Book, its reviews and images left behind.
DeleteBook_no_cascade(id) ==
    /\ id \in DOMAIN books
    /\ books' = Remove(books, {id})
    /\ response' = [op |-> "delete_book", id |-> id]
    /\ UNCHANGED <<authors, book_authors, publishers, categories, reviews,
                   images, next_id, now>>

\* Deleting a Book: its reviews, its images and its rows of the authors
\* through table go with it.
DeleteBook(id) ==
    /\ id \in DOMAIN books
    /\ books' = Remove(books, {id})
    /\ reviews' = Remove(reviews, Cascade(reviews, id))
    /\ images' = Remove(images, Cascade(images, id))
    /\ book_authors' = Remove(book_authors, Cascade(book_authors, id))
    /\ response' = [op |-> "delete_book", id |-> id]
    /\ UNCHANGED <<authors, publishers, categories, next_id, now>>

----------------------------------------------------------------------------
(* Reviews of a few books *)

MaxReviewedBooks == 2

MaxReviewRows == 5

ReviewInputs ==
    [book : 1..MaxReviewedBooks,
     reviewer_email : {"ann@example.org", "bob@example.org"},
     rating : {0, 5}]

ReviewNext ==
    \/ /\ next_id.book <= MaxReviewedBooks
       /\ RowsInserted < MaxReviewRows
       /\ CreateBook(WithFreshIsbn(BookDefaults), 0)
    \/ \E f \in ReviewInputs :
          /\ RowsInserted < MaxReviewRows
          /\ CreateReview(f)
    \/ \E id \in DOMAIN reviews, f \in ReviewInputs : UpdateReview(id, f)
    \/ \E id \in DOMAIN reviews : DeleteReview(id)
    \/ \E id \in DOMAIN books : DeleteBook(id)

SpecReview == Init /\ [][ReviewNext]_vars

\* No two stored reviews share their (book, reviewer_email) pair.
OneReviewPerPair ==
    \A r, t \in DOMAIN reviews :
        (/\ reviews[r].book = reviews[t].book
         /\ reviews[r].reviewer_email = reviews[t].reviewer_email) => r = t

\* Creating a review whose (book, reviewer_email) pair a stored review holds
\* fails with the uniqueness error and changes no stored review.
DuplicateReviewRejected ==
    (/\ response'.op = "create_review"
     /\ \E r \in DOMAIN reviews :
           /\ reviews[r].book = response'.input.book
           /\ reviews[r].reviewer_email = response'.input.reviewer_email)
    => /\ ~response'.ok
       /\ response'.error = "ValidationError"
       /\ "__all__" \in response'.fields
       /\ reviews' = reviews

\* C5: after any sequence of review creations, updates and deletions no two
\* stored reviews share their (book, reviewer_email) pair, and creating a
\* second review for a stored pair fails with the uniqueness error and leaves
\* the stored reviews unchanged.
C5_OneReviewPerPair ==
    []OneReviewPerPair /\ [][DuplicateReviewRejected]_vars

\* A second review for a stored pair has just been refused, with another
\* review of the same book by another reviewer stored.
C5_Witness ==
    /\ response.op = "create_review"
    /\ ~response.ok
    /\ "__all__" \in response.fields
    /\ \E r, t \in DOMAIN reviews :
          /\ r # t
          /\ reviews[r].book = response.input.book
          /\ reviews[t].book = response.input.book
          /\ reviews[r].reviewer_email = response.input.reviewer_email

----------------------------------------------------------------------------
(* Books with their publisher, category, reviews and images *)

MaxRows == 5

\* Every primary key the counter has handed out so far, stored or deleted.
Issued(counter) == 1..(counter - 1)

IntegrityNext ==
    \/ \E name \in {"Penguin", "Tor"} :
          RowsInserted < MaxRows /\ CreatePublisher(name)
    \/ \E name \in {"Fiction", "Science"} :
          RowsInserted < MaxRows /\ CreateCategory(name)
    \/ \E p \in {NULL} \cup DOMAIN publishers,
          c \in {NULL} \cup DOMAIN categories :
          /\ RowsInserted < MaxRows
          /\ CreateBook(WithFreshIsbn([BookDefaults EXCEPT !.publisher = p,
                                                           !.category = c]), 1)
    \/ \E b \in Issued(next_id.book) :
          /\ RowsInserted < MaxRows
          /\ CreateReview([book |-> b, reviewer_email |-> "ann@example.org",
                           rating |-> 5])
    \/ \E b \in Issued(next_id.book) :
          /\ RowsInserted < MaxRows
          /\ CreateImage([book |-> b, is_primary |-> TRUE])
    \/ \E id \in DOMAIN books : DeleteBook(id)
    \/ \E id \in DOMAIN publishers : DeletePublisher(id)
    \/ \E id \in DOMAIN categories : DeleteCategory(id)
    \/ \E id \in DOMAIN reviews : DeleteReview(id)
    \/ \E id \in DOMAIN images : DeleteImage(id)

SpecIntegrity == Init /\ [][IntegrityNext]_vars

\* Every review and image references a stored book; every book's publisher
\* and category is null or a stored row.
ReferencesResolve ==
    /\ \A r \in DOMAIN reviews : reviews[r].book \in DOMAIN books
    /\ \A m \in DOMAIN images : images[m].book \in DOMAIN books
    /\ \A i \in DOMAIN books :
          /\ books[i].publisher \in {NULL} \cup DOMAIN publishers
          /\ books[i].category \in {NULL} \cup DOMAIN categories

BookFields ==
    {"title", "isbn_10", "isbn_13", "publisher", "category", "price",
     "discount_percentage", "stock_quantity", "min_stock_level", "status",
     "featured", "bestseller", "created_at", "updated_at"}

\* Deleting a publisher or a category keeps every book, nulls the reference
\* of the books that held it and changes no other field; deleting a book
\* deletes exactly its own reviews and images.
DeleteEffects ==
    /\ response'.op \in {"delete_publisher", "delete_category"} =>
          LET ref == IF response'.op = "delete_publisher"
                     THEN "publisher" ELSE "category"
          IN  /\ DOMAIN books' = DOMAIN books
              /\ reviews' = reviews
              /\ images' = images
              /\ \A i \in DOMAIN books :
                    /\ \A fld \in BookFields \ {ref} :
                          books'[i][fld] = books[i][fld]
                    /\ books'[i][ref] =
                          IF books[i][ref] = response'.id
                          THEN NULL ELSE books[i][ref]
    /\ response'.op = "delete_book" =>
          /\ DOMAIN reviews' =
                {r \in DOMAIN reviews : reviews[r].book # response'.id}
          /\ DOMAIN images' =
                {m \in DOMAIN images : images[m].book # response'.id}
          /\ \A i \in DOMAIN books' : books'[i] = books[i]

\* C6: after any sequence of creations and deletions of books, publishers,
\* categories, reviews and images, every review and image references a stored
\* book (deleting a book deletes its reviews and images) and every book's
\* publisher and category is null or a stored row (deleting a publisher or a
\* category keeps every referencing book, nulls that reference and changes no
\* other field).
C6_ReferentialActions ==
    []ReferencesResolve /\ [][DeleteEffects]_vars

\* A publisher has just been deleted and a book that held it is stored with
\* a null publisher, its category and a review still in place, some time after
\* the book was saved.
C6_Witness ==
    /\ response.op = "delete_publisher"
    /\ \E i \in DOMAIN books :
          /\ books[i].publisher = NULL
          /\ books[i].category # NULL
          /\ \E r \in DOMAIN reviews : reviews[r].book = i

\* A book has just been deleted that had a review and an image.
C6_WitnessCascade ==
    /\ response.op = "delete_book"
    /\ next_id.review > 1
    /\ next_id.image > 1
    /\ reviews = <<>>
    /\ images = <<>>

----------------------------------------------------------------------------
(* Admin bulk actions (stores/admin.py)                                     *)

\* QuerySet.update(field=value) over the selected rows: one UPDATE statement;
\* save() is not called and auto_now does not stamp updated_at.
Update(queryset, field, value) ==
    [i \in DOMAIN books |->
        IF i \in queryset THEN [books[i] EXCEPT ![field] = value]
        ELSE books[i]]

\* mark_as_featured
mark_as_featured(queryset) ==
    /\ books' = Update(queryset, "featured", TRUE)
    /\ response' = [op |-> "mark_as_featured", selected |-> queryset]
    /\ UNCHANGED <<authors, book_authors, publishers, categories, reviews,
                   images, next_id, now>>

\* mark_as_bestseller
mark_as_bestseller(queryset) ==
    /\ books' = Update(queryset, "bestseller", TRUE)
    /\ response' = [op |-> "mark_as_bestseller", selected |-> queryset]
    /\ UNCHANGED <<authors, book_authors, publishers, categories, reviews,
                   images, next_id, now>>

\* apply_discount done by setting the field and calling save() on each
\* selected book.
apply_discount_save(queryset) ==
    /\ books' = [i \in DOMAIN books |->
                    IF i \in queryset
                    THEN [books[i] EXCEPT !.discount_percentage = 1000,
                                          !.updated_at = now]
                    ELSE books[i]]
    /\ response' = [op |-> "apply_discount", selected |-> queryset]
    /\ UNCHANGED <<authors, book_authors, publishers, categories, reviews,
                   images, next_id, now>>

\* apply_discount: discount_percentage=10, that is 10.00.
apply_discount(queryset) ==
    /\ books' = Update(queryset, "discount_percentage", 1000)
    /\ response' = [op |-> "apply_discount", selected |-> queryset]
    /\ UNCHANGED <<authors, book_authors, publishers, categories, reviews,
                   images, next_id, now>>

MaxAdminBooks == 2

AdminInputs ==
    {[BookDefaults EXCEPT !.discount_percentage = d, !.featured = f,
                          !.bestseller = b] :
        d \in {0, 1000, 2550}, f \in BOOLEAN, b \in BOOLEAN}

AdminNext ==
    \/ \E f \in AdminInputs :
          /\ next_id.book <= MaxAdminBooks
          /\ CreateBook(WithFreshIsbn(f), 1)
    \/ \E queryset \in SUBSET DOMAIN books : mark_as_featured(queryset)
    \/ \E queryset \in SUBSET DOMAIN books : mark_as_bestseller(queryset)
    \/ \E queryset \in SUBSET DOMAIN books : apply_discount(queryset)

SpecAdmin == Init /\ [][AdminNext]_vars

BulkActions == {"mark_as_featured", "mark_as_bestseller", "apply_discount"}

\* What a step of a bulk action does: the field it sets has the action's value
\* on every selected book, every other field of those books and every book not
\* selected are as before, no book appears or disappears, and running the same
\* action on the same selection again changes nothing.
BulkActionEffect ==
    response'.op \in BulkActions =>
        LET op    == response'.op
            field == CASE op = "mark_as_featured" -> "featured"
                       [] op = "mark_as_bestseller" -> "bestseller"
                       [] op = "apply_discount" -> "discount_percentage"
            S     == response'.selected
        IN  /\ DOMAIN books' = DOMAIN books
            /\ \A i \in S :
                  /\ books'[i][field] = IF op = "apply_discount"
                                        THEN 1000 ELSE TRUE
                  /\ \A fld \in BookFields \ {field} :
                        books'[i][fld] = books[i][fld]
            /\ \A i \in DOMAIN books \ S : books'[i] = books[i]
            /\ (response.op = op /\ response.selected = S) => books' = books
            /\ UNCHANGED <<authors, book_authors, publishers, categories,
                           reviews, images>>

\* C7: 'apply 10% discount' on a selected subset S sets discount_percentage to
\* 10 on every book of S whatever it was, leaves their other fields and every
\* book outside S unchanged; 'mark as featured' and 'mark as bestseller'
\* likewise change only their flag on the books of S; each is idempotent.
C7_BulkActions == [][BulkActionEffect]_vars

\* The discount has just been applied to one book, saved some time ago, of
\* two; the other keeps its discount of 25.50.
C7_Witness ==
    /\ response.op = "apply_discount"
    /\ Cardinality(response.selected) = 1
    /\ \A i \in response.selected :
          /\ books[i].discount_percentage = 1000
          /\ books[i].updated_at < now
    /\ \E i \in DOMAIN books \ response.selected :
          books[i].discount_percentage = 2550

----------------------------------------------------------------------------
(* Books with and without ISBNs *)

\* Saving a changed Book (full_clean, then UPDATE), dt after the previous
\* operation.
UpdateBook(id, f, dt) ==
    LET errors == BookErrors(f, id)
    IN  /\ id \in DOMAIN books
        /\ now' = now + dt
        /\ IF errors # {}
           THEN /\ response' = [op |-> "update_book", ok |-> FALSE,
                                error |-> "ValidationError",
                                fields |-> errors, id |-> id, input |-> f]
                /\ UNCHANGED tables
           ELSE /\ books' = [books EXCEPT
                               ![id] = BookRow(f, books[id].created_at, now')]
                /\ response' = [op |-> "update_book", ok |-> TRUE,
                                id |-> id, input |-> f]
                /\ UNCHANGED <<authors, book_authors, publishers, categories,
                               reviews, images, next_id>>

MaxIsbnBooks == 2

IsbnInputs ==
    {[BookDefaults EXCEPT !.isbn_10 = i10, !.isbn_13 = i13] :
        i10 \in {"", "0306406152", "0140449132"},
        i13 \in {"", "9780306406157", "9780140449136"}}

IsbnNext ==
    \/ \E f \in IsbnInputs :
          /\ next_id.book <= MaxIsbnBooks
          /\ CreateBook(f, 0)
    \/ \E id \in DOMAIN books, f \in IsbnInputs : UpdateBook(id, f, 0)
    \/ \E id \in DOMAIN books : DeleteBook(id)

SpecIsbn == Init /\ [][IsbnNext]_vars

\* C8: ISBN uniqueness applies only to ISBNs that are present. Saving a new
\* book with no ISBN-10 and no ISBN-13 is accepted however many such books
\* are stored; a save that was accepted left no other stored book with the
\* same non-blank ISBN-10 or ISBN-13, and a save that was refused was refused
\* for an ISBN that is present.
C8_AsStated ==
    response.op \in {"create_book", "update_book"} =>
        /\ (response.input.isbn_10 = "" /\ response.input.isbn_13 = "")
              => response.ok
        /\ response.ok =>
              \A i \in DOMAIN books \ {response.id}, fld \in {"isbn_10", "isbn_13"} :
                  response.input[fld] # "" => books[i][fld] # response.input[fld]
        /\ ~response.ok =>
              \A fld \in response.fields : response.input[fld] # ""

----------------------------------------------------------------------------
(* Authors of a book and their display *)

\* Collation rank of the names authors are given here.
NameRank == ("Ann" :> 1) @@ ("Bob" :> 2) @@ ("Kim" :> 3) @@ ("Lee" :> 4)

\* Author.full_name
full_name(a) == a.first_name \o " " \o a.last_name

\* Saving a new Author.
CreateAuthor(first_name, last_name) ==
    LET id == next_id.author
    IN  /\ authors' = Insert(authors, id, [first_name |-> first_name,
                                           last_name |-> last_name,
                                           created_at |-> now])
        /\ next_id' = [next_id EXCEPT !.author = id + 1]
        /\ response' = [op |-> "create_author", ok |-> TRUE, id |-> id]
        /\ UNCHANGED <<books, book_authors, publishers, categories, reviews,
                       images, now>>

\* book.authors.add(author): a row of the through table, unless the pair is
\* already in it.
AddAuthor(book, author) ==
    LET id == next_id.book_authors
    IN  /\ book \in DOMAIN books
        /\ author \in DOMAIN authors
        /\ IF \E l \in DOMAIN book_authors :
                 book_authors[l] = [book |-> book, author |-> author]
           THEN UNCHANGED tables
           ELSE /\ book_authors' = Insert(book_authors, id,
                                          [book |-> book, author |-> author])
                /\ next_id' = [next_id EXCEPT !.book_authors = id + 1]
                /\ UNCHANGED <<books, authors, publishers, categories,
                               reviews, images>>
        /\ response' = [op |-> "add_author", book |-> book,
                        author |-> author]
        /\ UNCHANGED now

\* book.authors.remove(author)
RemoveAuthor(book, author) ==
    /\ book \in DOMAIN books
    /\ author \in DOMAIN authors
    /\ book_authors' = Remove(book_authors,
                              {l \in DOMAIN book_authors :
                                  book_authors[l] =
                                      [book |-> book, author |-> author]})
    /\ response' = [op |-> "remove_author", book |-> book, author |-> author]
    /\ UNCHANGED <<books, authors, publishers, categories, reviews, images,
                   next_id, now>>

\* The authors linked to book.
LinkedAuthors(book) ==
    {book_authors[l].author :
        l \in {l \in DOMAIN book_authors : book_authors[l].book = book}}

\* The through row that links author to book.
LinkOf(book, author) ==
    CHOOSE l \in DOMAIN book_authors :
        book_authors[l] = [book |-> book, author |-> author]

\* book.authors.all() in the order of the through table's rows.
authors_all_by_link(book, tie) ==
    LET S == LinkedAuthors(book)
    IN  Sorted(S, [x \in S |->
            Cardinality({y \in S : LinkOf(book, y) < LinkOf(book, x)})])

\* book.authors.all(): Author.Meta.ordering = ['last_name', 'first_name'].
authors_all(book, tie) ==
    LET S == LinkedAuthors(book)
        Before(x, y) ==
            LET lx == NameRank[authors[x].last_name]
                ly == NameRank[authors[y].last_name]
                fx == NameRank[authors[x].first_name]
                fy == NameRank[authors[y].first_name]
            IN  \/ lx < ly
                \/ lx = ly /\ fx < fy
                \/ lx = ly /\ fx = fy /\ TieBefore(tie, x, y)
    IN  Sorted(S, [x \in S |-> Cardinality({y \in S : Before(y, x)})])

\* sep.join(strs)
RECURSIVE Join(_, _)
Join(sep, strs) ==
    IF strs = <<>> THEN ""
    ELSE IF Len(strs) = 1 THEN strs[1]
    ELSE strs[1] \o sep \o Join(sep, Tail(strs))

\* [author.full_name for author in authors]
FullNames(seq) == [i \in DOMAIN seq |-> full_name(authors[seq[i]])]

\* Book.get_authors_display
get_authors_display(book, tie) ==
    /\ book \in DOMAIN books
    /\ response' = [op |-> "get_authors_display", book |-> book,
                    value |-> Join(", ", FullNames(authors_all(book, tie)))]
    /\ UNCHANGED <<tables, now>>

\* BookAdmin.get_authors
get_authors(obj, tie) ==
    LET all == authors_all(obj, tie)
    IN  /\ obj \in DOMAIN books
        /\ response' = [op |-> "get_authors", book |-> obj,
                        value |-> IF all # <<>>
                                  THEN Join(", ", FullNames(all))
                                  ELSE "No authors"]
        /\ UNCHANGED <<tables, now>>

MaxAuthorRows == 6

AuthorNext ==
    \/ /\ RowsInserted < MaxAuthorRows
       /\ CreateBook(WithFreshIsbn(BookDefaults), 0)
    \/ \E first_name \in {"Ann", "Bob"}, last_name \in {"Kim", "Lee"} :
          /\ RowsInserted < MaxAuthorRows
          /\ CreateAuthor(first_name, last_name)
    \/ \E book \in DOMAIN books, author \in DOMAIN authors :
          /\ RowsInserted < MaxAuthorRows
          /\ AddAuthor(book, author)
    \/ \E book \in DOMAIN books, author \in DOMAIN authors :
          RemoveAuthor(book, author)
    \/ \E book \in DOMAIN books, tie \in TieOrders :
          get_authors_display(book, tie)
    \/ \E obj \in DOMAIN books, tie \in TieOrders : get_authors(obj, tie)

SpecAuthor == Init /\ [][AuthorNext]_vars

\* All orderings of the set S, as sequences without repetition.
Orderings(S) ==
    {seq \in [1..Cardinality(S) -> S] : IsInjective(seq)}

\* The sequence of authors seq is in ascending (last_name, first_name) order.
InNameOrder(seq) ==
    \A i, j \in DOMAIN seq :
        i < j =>
            LET a == authors[seq[i]]
                b == authors[seq[j]]
            IN  \/ NameRank[a.last_name] < NameRank[b.last_name]
                \/ /\ a.last_name = b.last_name
                   /\ NameRank[a.first_name] <= NameRank[b.first_name]

\* The sequence of authors of book seq is in the order they were linked.
InLinkOrder(book, seq) ==
    \A i, j \in DOMAIN seq :
        i < j => LinkOf(book, seq[i]) < LinkOf(book, seq[j])

\* C9 (as stated): the display of a book's authors is their full names joined
\* by ', ' in the order they were associated with the book, and the
\* 'No authors' sentinel, never the empty string, for a book with none.
C9_AsStated ==
    response.op \in {"get_authors_display", "get_authors"} =>
        LET S == LinkedAuthors(response.book)
        IN  /\ response.value # ""
            /\ S = {} => response.value = "No authors"
            /\ S # {} =>
                  \E seq \in Orderings(S) :
                      /\ InLinkOrder(response.book, seq)
                      /\ response.value = Join(", ", FullNames(seq))

\* C9 (amended): both displays give the full names ('first last') of the
\* book's linked authors joined by ', ' in ascending (last_name, first_name)
\* order, whatever the order they were associated in; for a book with no
\* linked authors BookAdmin.get_authors gives 'No authors' and
\* Book.get_authors_display gives the empty string.
C9_AuthorsDisplay ==
    response.op \in {"get_authors_display", "get_authors"} =>
        LET S == LinkedAuthors(response.book)
        IN  /\ S = {} =>
                  response.value = IF response.op = "get_authors"
                                   THEN "No authors" ELSE ""
            /\ S # {} =>
                  \E seq \in Orderings(S) :
                      /\ InNameOrder(seq)
                      /\ response.value = Join(", ", FullNames(seq))

\* 'Ann Kim, Bob Lee' has been displayed for a book Bob Lee was associated
\* with before Ann Kim.
C9_Witness ==
    /\ response.op \in {"get_authors_display", "get_authors"}
    /\ response.value = "Ann Kim, Bob Lee"
    /\ \E x, y \in LinkedAuthors(response.book) :
          /\ full_name(authors[x]) = "Bob Lee"
          /\ full_name(authors[y]) = "Ann Kim"
          /\ LinkOf(response.book, x) < LinkOf(response.book, y)

====
